---- MODULE Spec2Model ----
(***************************************************************************)
(* Coastal Blue Carbon transient stock-and-flux engine                     *)
(* (natcap/invest/coastal_blue_carbon/coastal_blue_carbon.py).             *)
(*                                                                         *)
(* execute() is modelled as a state machine: one action per spatial block  *)
(* set-up (BeginBlock), one per iteration of the transient loop (Timestep) *)
(* and one for the aggregation and raster writes (WriteOutputs).           *)
(*                                                                         *)
(* Arrays keep the source's names and its 0-based first index (timestep or *)
(* transition); the second index is the pixel position in the flattened    *)
(* block, 1..n.  float32 values are held in fixed point, as integers in    *)
(* units of 1/Scale; Float32Exact checks that every value the model meets  *)
(* is a dyadic rational the fixed point and float32 both hold exactly.     *)
(***************************************************************************)
EXTENDS Integers, Sequences, FiniteSets, TLC

VARIABLES
    d,               \* the dictionary io.get_inputs returns (lookup dicts are mutable)
    C_prior_raster,  \* baseline raster file: block index -> block of pixel codes
    C_r_rasters,     \* transition raster files, 0-based: k -> raster
    C_nodata,        \* nodata value of the baseline raster (0 stands for None)
    out,             \* output raster files: block index -> what was written there
    pc,              \* position in execute: "block", "transient", "done", "failed"
    block_idx,       \* number of blocks already started
    i,               \* loop variable of the transient analysis
    transition_idx,  \* local of the transient loop
    S_biomass, S_soil, S_litter, T,
    A_biomass, A_soil, E_biomass, E_soil, N_biomass, N_soil, V,
    L, Y_biomass, Y_soil, D_biomass, D_soil, H_biomass, H_soil,
    R_biomass, R_soil,
    pre,             \* cbc_preprocessor.execute: its inputs, position and outputs
    wave,            \* wave_energy: the valuation of the wave farm sites
    form,            \* the Fisheries form: dropdown value, interactive inputs
    probe            \* a call of a function of the module on its own

stockVars == <<S_biomass, S_soil, S_litter, T>>
fluxVars  == <<A_biomass, A_soil, E_biomass, E_soil, N_biomass, N_soil, V>>
transVars == <<L, Y_biomass, Y_soil, D_biomass, D_soil, H_biomass, H_soil>>
distVars  == <<R_biomass, R_soil>>
fileVars  == <<C_prior_raster, C_r_rasters, C_nodata>>
\* the state of the programs other than coastal_blue_carbon.execute
otherVars == <<pre, wave, form, probe>>
vars == <<d, fileVars, out, pc, block_idx, i, transition_idx,
          stockVars, fluxVars, transVars, distVars, otherVars>>

----------------------------------------------------------------------------
(* Bounds of the model *)

\* largest number of transitions of a generated run
MaxTransitions == 3
\* largest number of timesteps of a generated run
MaxTimesteps == 5

----------------------------------------------------------------------------
(* float32 values *)

\* one unit of the fixed point is 1/Scale
Scale == 2^15
\* np.nan
NaN == -(2^30)
\* Values of the magnitude of the largest float32 are held as a coefficient:
\* c stands for (c / Scale) * np.finfo(np.float32).max and is stored beyond
\* Big, below -Big when negative, so that the order of the values is kept.
Big == 2^29
\* np.finfo(np.float32).min
FloatMin == -Big - Scale
\* float32 overflow: inf and -inf
Inf == Big + 2 * Scale
NegInf == -Big - 2 * Scale
\* the value of the raster nodata sentinel as it is written to a raster
NODATA_FLOAT == -(2^30) - 2
\* timestep_to_transition_idx falling off its loop returns None
None == -1

Real(x) == x * Scale
Half == Scale \div 2

IsNaN(a) == a = NaN
IsInf(a) == a = Inf \/ a = NegInf
IsHuge(a) == (a > Big /\ a <= Big + Scale) \/ (a < -Big /\ a >= -Big - Scale)
\* the coefficient of a huge value, and the value of a coefficient
Coef(a) == IF a > 0 THEN a - Big ELSE a + Big
OfCoef(c) ==
    IF c = 0 THEN 0
    ELSE IF c > Scale THEN Inf
    ELSE IF c < -Scale THEN NegInf
    ELSE IF c > 0 THEN Big + c ELSE -Big + c
\* neither not-a-number nor infinite nor huge
IsOrdinary(a) == a > -(2^28) /\ a < 2^28
\* IEEE comparison a == b: false whenever an operand is not-a-number
FEq(a, b) == ~IsNaN(a) /\ ~IsNaN(b) /\ a = b

FNeg(a) ==
    IF IsNaN(a) THEN NaN
    ELSE IF a = Inf THEN NegInf
    ELSE IF a = NegInf THEN Inf
    ELSE IF IsHuge(a) THEN OfCoef(-Coef(a))
    ELSE -a
\* float32 a + b: a value of ordinary size is absorbed by a huge one
FAdd(a, b) ==
    IF IsNaN(a) \/ IsNaN(b) THEN NaN
    ELSE IF IsInf(a) /\ IsInf(b) THEN (IF a = b THEN a ELSE NaN)
    ELSE IF IsInf(a) THEN a
    ELSE IF IsInf(b) THEN b
    ELSE IF IsHuge(a) /\ IsHuge(b) THEN OfCoef(Coef(a) + Coef(b))
    ELSE IF IsHuge(a) THEN a
    ELSE IF IsHuge(b) THEN b
    ELSE a + b
FSub(a, b) == FAdd(a, FNeg(b))
\* a * b of two fixed-point numbers, split so that no partial product
\* leaves the 32-bit integers of the model checker
MulAbs(a, b) ==
    LET aq == a \div Scale  ar == a % Scale
        bq == b \div Scale  br == b % Scale
    IN  aq * b + ar * bq + (ar * br) \div Scale
Abs(a) == IF a < 0 THEN -a ELSE a
\* the product of two ordinary values, or of a coefficient and one
MulSigned(a, b) ==
    IF (a < 0) = (b < 0) THEN MulAbs(Abs(a), Abs(b))
    ELSE -MulAbs(Abs(a), Abs(b))
FMul(a, b) ==
    IF IsNaN(a) \/ IsNaN(b) THEN NaN
    ELSE IF IsInf(a) \/ IsInf(b) \/ (IsHuge(a) /\ IsHuge(b))
         THEN (IF a = 0 \/ b = 0 THEN NaN
               ELSE IF (a < 0) = (b < 0) THEN Inf ELSE NegInf)
    ELSE IF IsHuge(a) THEN OfCoef(MulSigned(Coef(a), b))
    ELSE IF IsHuge(b) THEN OfCoef(MulSigned(a, Coef(b)))
    ELSE MulSigned(a, b)
\* the magnitude a product is formed from: a value or a coefficient
Mantissa(a) == IF IsHuge(a) THEN Abs(Coef(a)) ELSE Abs(a)
\* whether the product above is exact
MulExact(a, b) ==
    \/ IsNaN(a) \/ IsNaN(b) \/ IsInf(a) \/ IsInf(b)
    \/ (IsHuge(a) /\ IsHuge(b))
    \/ ((Mantissa(a) % Scale) * (Mantissa(b) % Scale)) % Scale = 0
\* whether float32 holds the value exactly: an ordinary value of 24
\* significant bits, or a huge one whose coefficient is a power of two
Exact32(a) ==
    \/ IsNaN(a) \/ IsInf(a)
    \/ (IsHuge(a) /\ \E m \in 0..15 : Abs(Coef(a)) = Scale \div 2^m)
    \/ (Abs(a) < 2^28 /\ \E m \in 0..4 : Abs(a) % 2^m = 0 /\ Abs(a) \div 2^m < 2^24)

\* 0.5 ** n for n >= 0
Pow05(n) == Scale \div (2^n)

\* elementwise array arithmetic over a block
Zeros(n) == [p \in 1..n |-> 0]
ArrAdd(a, b) == [p \in DOMAIN a |-> FAdd(a[p], b[p])]
ArrSub(a, b) == [p \in DOMAIN a |-> FSub(a[p], b[p])]
ArrMul(a, b) == [p \in DOMAIN a |-> FMul(a[p], b[p])]
ArrScale(a, c) == [p \in DOMAIN a |-> FMul(a[p], c)]

----------------------------------------------------------------------------
(* Transition Index Resolver *)

RECURSIVE ttiLoopShort(_, _, _, _)
\* (mutation: the loop stops one transition early)
ttiLoopShort(snapshot_years, transitions, timestep, k) ==
    IF k >= transitions - 1 THEN None
    ELSE IF timestep < snapshot_years[k+1] - snapshot_years[0] THEN k
    ELSE ttiLoopShort(snapshot_years, transitions, timestep, k + 1)

RECURSIVE ttiLoop(_, _, _, _)
ttiLoop(snapshot_years, transitions, timestep, k) ==
    IF k >= transitions THEN None
    ELSE IF timestep < snapshot_years[k+1] - snapshot_years[0] THEN k
    ELSE ttiLoop(snapshot_years, transitions, timestep, k + 1)

RECURSIVE ttiLoopBackward(_, _, _, _)
\* (mutation: the index counted from the last transition)
ttiLoopBackward(snapshot_years, transitions, timestep, k) ==
    IF k >= transitions THEN None
    ELSE IF timestep < snapshot_years[k+1] - snapshot_years[0]
         THEN transitions - 1 - k
    ELSE ttiLoopBackward(snapshot_years, transitions, timestep, k + 1)

RECURSIVE ttiLoopInclusive(_, _, _, _)
\* (mutation: <= for < in the comparison)
ttiLoopInclusive(snapshot_years, transitions, timestep, k) ==
    IF k >= transitions THEN None
    ELSE IF timestep <= snapshot_years[k+1] - snapshot_years[0] THEN k
    ELSE ttiLoopInclusive(snapshot_years, transitions, timestep, k + 1)

timestep_to_transition_idx_inclusive(snapshot_years, transitions, timestep) ==
    ttiLoopInclusive(snapshot_years, transitions, timestep, 0)

timestep_to_transition_idx_backward(snapshot_years, transitions, timestep) ==
    ttiLoopBackward(snapshot_years, transitions, timestep, 0)

timestep_to_transition_idx(snapshot_years, transitions, timestep) ==
    ttiLoop(snapshot_years, transitions, timestep, 0)

s_to_timestep(snapshot_years, snapshot_idx) ==
    snapshot_years[snapshot_idx] - snapshot_years[0]

\* Python truth value of an int or None
Truthy(x) == x # None /\ x # 0

\* (mutation: the timestep compared with the next one, not the previous one)
is_transition_year_ahead(snapshot_years, transitions, timestep) ==
    IF timestep_to_transition_idx(snapshot_years, transitions, timestep) #
         timestep_to_transition_idx(snapshot_years, transitions, timestep + 1)
       /\ Truthy(timestep_to_transition_idx(snapshot_years, transitions, timestep))
    THEN TRUE
    ELSE FALSE

is_transition_year(snapshot_years, transitions, timestep) ==
    IF timestep_to_transition_idx(snapshot_years, transitions, timestep) #
         timestep_to_transition_idx(snapshot_years, transitions, timestep - 1)
       /\ Truthy(timestep_to_transition_idx(snapshot_years, transitions, timestep))
    THEN TRUE
    ELSE FALSE

----------------------------------------------------------------------------
(* Reclassifier *)

RECURSIVE SortedSeq(_)
\* sorted(keys) / np.unique(array): the members of a set in increasing order
SortedSeq(S) ==
    IF S = {} THEN << >>
    ELSE LET m == CHOOSE x \in S : \A y \in S : x <= y
         IN  <<m>> \o SortedSeq(S \ {m})

Range(f) == {f[x] : x \in DOMAIN f}

\* d[ndata] = ndata
WithNdata(dct) ==
    [key \in DOMAIN dct \cup {FloatMin} |->
        IF key = FloatMin THEN FloatMin ELSE dct[key]]

\* (mutation: right=False, the i with k[i-1] <= x < k[i])
DigitizeLeft(x, keys) == Cardinality({key \in keys : key <= x})

\* np.digitize(x, k, right=True) for increasing k: the 0-based i with
\* k[i-1] < x <= k[i]
Digitize(x, keys) == Cardinality({key \in keys : key < x})

\* reclass(array, d, out_dtype=np.float32, nodata_mask=nodata_mask).
\* Result: the reclassified array (out), the dictionary as the call leaves
\* it (dct) and whether v[index] raised IndexError (raised).
\* a_ravel[~has_map] = ndata indexes the pixels by a mask computed over the
\* unique values u: numpy takes the positions of its True entries.
reclass(array, dct, nodata_mask) ==
    LET n       == Len(array)
        u       == SortedSeq(Range(array))
        has_map == [j \in 1..Len(u) |-> u[j] \in DOMAIN dct]
        a_ravel == [p \in 1..n |->
                      IF p <= Len(u) /\ ~has_map[p] THEN FloatMin ELSE array[p]]
        dct2    == WithNdata(dct)
        k       == SortedSeq(DOMAIN dct2)
        index   == [p \in 1..n |-> Digitize(a_ravel[p], DOMAIN dct2)]
        raised  == \E p \in 1..n : index[p] >= Len(k)
        lookup  == [p \in 1..n |-> IF index[p] >= Len(k) THEN NaN
                                   ELSE dct2[k[index[p] + 1]]]
    IN  [out    |-> [p \in 1..n |->
                       IF Truthy(nodata_mask) /\ FEq(a_ravel[p], nodata_mask)
                       THEN NaN ELSE lookup[p]],
         dct    |-> dct2,
         raised |-> raised]

\* reclass_transition(a_prev, a_next, trans_dict, out_dtype=np.float32,
\* nodata_mask=nodata_mask): a masked array, data and mask
reclass_transition(a_prev, a_next, trans_dict, nodata_mask) ==
    LET n    == Len(a_prev)
        has  == [p \in 1..n |-> <<a_prev[p], a_next[p]>> \in DOMAIN trans_dict]
        isnd == [p \in 1..n |-> Truthy(nodata_mask) /\ FEq(a_prev[p], nodata_mask)]
    IN  [data |-> [p \in 1..n |->
                     IF isnd[p] THEN NaN
                     ELSE IF has[p] THEN trans_dict[<<a_prev[p], a_next[p]>>]
                     ELSE 0],
         mask |-> [p \in 1..n |-> ~isnd[p] /\ ~has[p]]]

\* ndarray[i] = masked_array stores the data of the masked array
AsArray(c) == c.data

\* write_to_raster: array[array == np.nan] = NODATA_FLOAT, then WriteArray
write_to_raster(array) ==
    [p \in DOMAIN array |-> IF FEq(array[p], NaN) THEN NODATA_FLOAT ELSE array[p]]

----------------------------------------------------------------------------
(* Inputs: what io.get_inputs hands to execute *)

\* land-cover codes of the lookup table: 1 is no habitat, 2 is a habitat
Codes == {1, 2}
BaseYear == 2000

ClassDict(v1, v2) == [c \in Codes |-> IF c = 1 THEN v1 ELSE v2]
PairDict(v11, v12, v21, v22) ==
    [pr \in Codes \X Codes |->
        IF pr = <<1, 1>> THEN v11 ELSE IF pr = <<1, 2>> THEN v12
        ELSE IF pr = <<2, 1>> THEN v21 ELSE v22]

\* strictly increasing snapshot years, transitions + 1 of them, 0-based
YearLists(transitions, maxT) ==
    {y \in [0..transitions -> BaseYear..(BaseYear + maxT)] :
        /\ y[0] = BaseYear
        /\ \A k \in 0..(transitions - 1) : y[k] < y[k+1]}

\* every raster of nb blocks of n pixels over the codes
RasterSet(nb, n) == [1..nb -> [1..n -> Codes]]

\* the dictionary of io.get_inputs for the given years, tables and prices
get_inputs(years, transitions, tabs, econ) ==
    LET timesteps == years[transitions] - years[0]
    IN  [snapshot_years       |-> years,
         transition_years     |-> [k \in 0..(transitions - 1) |-> years[k]],
         transitions          |-> transitions,
         timesteps            |-> timesteps,
         do_economic_analysis |-> econ,
         price_t              |-> [t \in 0..(timesteps - 1) |-> Real(t + 1)],
         lulc_to_Sb           |-> tabs.Sb,
         lulc_to_Ss           |-> tabs.Ss,
         lulc_to_L            |-> tabs.L,
         lulc_to_Yb           |-> tabs.Yb,
         lulc_to_Ys           |-> tabs.Ys,
         lulc_to_Hb           |-> tabs.Hb,
         lulc_to_Hs           |-> tabs.Hs,
         lulc_trans_to_Db     |-> tabs.Db,
         lulc_trans_to_Ds     |-> tabs.Ds]

Tables(Sb, Ss, Yb, Ys, Db, Ds) ==
    [Sb |-> Sb, Ss |-> Ss, L |-> ClassDict(Real(1), Real(5)),
     Yb |-> Yb, Ys |-> Ys,
     Hb |-> ClassDict(Real(1), Real(1)), Hs |-> ClassDict(Real(1), Real(2)),
     Db |-> Db, Ds |-> Ds]

\* tables of the generated runs: the biomass pool's rates vary freely over
\* a few values, the soil pool is either inert or fully dynamic
GeneralTables ==
    {Tables(ClassDict(0, Real(100)), ClassDict(Real(2), Real(40)),
            ClassDict(0, yb), ys, PairDict(0, 0, db21, db22), ds) :
        yb \in {0, Real(1)}, db21 \in {Half, Scale}, db22 \in {0, Half},
        <<ys, ds>> \in {<<ClassDict(0, 0), PairDict(0, 0, 0, 0)>>,
                        <<ClassDict(Real(1), Real(2)),
                          PairDict(Half, 0, Scale, Half)>>}}

\* the state in which execute starts on the given inputs
Start(years, transitions, tabs, econ, prior, cr) ==
    /\ d = get_inputs(years, transitions, tabs, econ)
    /\ C_prior_raster = prior
    /\ C_r_rasters = cr
    /\ C_nodata = 255
    /\ out = << >>
    /\ pc = "block"
    /\ block_idx = 0
    /\ i = 0
    /\ transition_idx = 0
    /\ S_biomass = << >> /\ S_soil = << >> /\ S_litter = << >> /\ T = << >>
    /\ A_biomass = << >> /\ A_soil = << >> /\ E_biomass = << >>
    /\ E_soil = << >> /\ N_biomass = << >> /\ N_soil = << >> /\ V = << >>
    /\ L = << >> /\ Y_biomass = << >> /\ Y_soil = << >>
    /\ D_biomass = << >> /\ D_soil = << >>
    /\ H_biomass = << >> /\ H_soil = << >>
    /\ R_biomass = << >> /\ R_soil = << >>
    /\ pre = << >> /\ wave = << >> /\ form = << >> /\ probe = << >>

\* generated runs: one block of one pixel, every history of codes, every
\* list of snapshot years within the bounds
GeneralInit ==
    \E tr \in 1..MaxTransitions :
    \E y \in YearLists(tr, MaxTimesteps), tabs \in GeneralTables,
       prior \in RasterSet(1, 1), cr \in [0..(tr - 1) -> RasterSet(1, 1)] :
        Start(y, tr, tabs, TRUE, prior, cr)

\* runs over a raster of two blocks of two pixels, one transition
BlockInit ==
    \E prior \in RasterSet(2, 2), cr \in [0..0 -> RasterSet(2, 2)] :
        Start([k \in 0..1 |-> BaseYear + 2 * k], 1,
              Tables(ClassDict(0, Real(100)), ClassDict(Real(2), Real(40)),
                     ClassDict(0, Real(1)), ClassDict(Real(1), Real(2)),
                     PairDict(0, 0, Scale, Half), PairDict(Half, 0, Scale, Half)),
              TRUE, prior, cr)

\* the end-to-end accumulation scenario: snapshot years [2000, 2010], one
\* transition raster, accumulation 1.0 per year in the habitat, nothing
\* disturbed on the way into the habitat
AccumulationInit ==
    \E sb1 \in {0, Real(3)}, db21 \in {Half, Scale}, econ \in BOOLEAN,
       prior \in RasterSet(1, 2), cr \in [0..0 -> RasterSet(1, 2)] :
        Start([k \in 0..1 |-> BaseYear + 10 * k], 1,
              Tables(ClassDict(sb1, Real(100)), ClassDict(Real(2), Real(40)),
                     ClassDict(0, Real(1)), ClassDict(0, Real(2)),
                     PairDict(0, 0, db21, 0), PairDict(0, 0, Scale, 0)),
              econ, prior, cr)

\* the end-to-end disturbance scenario: a habitat holding 100 that is
\* converted in the second transition, which begins at timestep 5
DisturbanceInit ==
    \E last \in {7, 14}, ds21 \in {Half, Scale},
       prior \in RasterSet(1, 1), cr \in [0..1 -> RasterSet(1, 1)] :
        Start([k \in 0..2 |-> IF k = 2 THEN BaseYear + last ELSE BaseYear + 5 * k], 2,
              Tables(ClassDict(0, Real(100)), ClassDict(0, Real(40)),
                     ClassDict(0, 0), ClassDict(0, 0),
                     PairDict(0, 0, Scale, 0), PairDict(0, 0, ds21, 0)),
              FALSE, prior, cr)

\* Rasters that hold codes the lookup tables do not: the tables know the
\* codes 1 (no habitat) and 3 (a habitat); 0, 2 and 4 lie below, between and
\* above them, and one of those is the nodata value of the baseline raster.
RasterCodes == {0, 1, 2, 3, 4}
KnownDict(v1, v3) == [c \in {1, 3} |-> IF c = 1 THEN v1 ELSE v3]
\* the transition table has no row for the pair (3, 3)
KnownPairs(v11, v13, v31) ==
    [pr \in {<<1, 1>>, <<1, 3>>, <<3, 1>>} |->
        IF pr = <<1, 1>> THEN v11 ELSE IF pr = <<1, 3>> THEN v13 ELSE v31]
KnownTables ==
    [Sb |-> KnownDict(Real(8), Real(100)), Ss |-> KnownDict(Real(2), Real(40)),
     L  |-> KnownDict(Real(1), Real(5)),
     Yb |-> KnownDict(0, Real(1)), Ys |-> KnownDict(0, Real(2)),
     Hb |-> KnownDict(Real(1), Real(1)), Hs |-> KnownDict(Real(1), Real(2)),
     Db |-> KnownPairs(0, 0, Scale), Ds |-> KnownPairs(0, 0, Scale)]

\* the state in which execute starts on a baseline raster whose nodata
\* value is nodata
StartNodata(years, transitions, tabs, econ, prior, cr, nodata) ==
    /\ d = get_inputs(years, transitions, tabs, econ)
    /\ C_prior_raster = prior
    /\ C_r_rasters = cr
    /\ C_nodata = nodata
    /\ out = << >>
    /\ pc = "block"
    /\ block_idx = 0
    /\ i = 0
    /\ transition_idx = 0
    /\ S_biomass = << >> /\ S_soil = << >> /\ S_litter = << >> /\ T = << >>
    /\ A_biomass = << >> /\ A_soil = << >> /\ E_biomass = << >>
    /\ E_soil = << >> /\ N_biomass = << >> /\ N_soil = << >> /\ V = << >>
    /\ L = << >> /\ Y_biomass = << >> /\ Y_soil = << >>
    /\ D_biomass = << >> /\ D_soil = << >>
    /\ H_biomass = << >> /\ H_soil = << >>
    /\ R_biomass = << >> /\ R_soil = << >>
    /\ pre = << >> /\ wave = << >> /\ form = << >> /\ probe = << >>

\* runs over one block of three pixels of any codes, one transition of one
\* timestep into a raster of one code
ReclassInit ==
    \E nodata \in {0, 2, 4}, c \in RasterCodes,
       prior \in [1..1 -> [1..3 -> RasterCodes]] :
        StartNodata([k \in 0..1 |-> BaseYear + k], 1, KnownTables, TRUE,
                    prior, [k \in 0..0 |-> [b \in 1..1 |-> [p \in 1..3 |-> c]]],
                    nodata)

\* runs over two blocks of two pixels that share the lookup tables, with
\* codes the tables do not hold
SharedTableInit ==
    \E c \in {1, 3}, prior \in [1..2 -> [1..2 -> {0, 1, 3}]] :
        StartNodata([k \in 0..1 |-> BaseYear + k], 1, KnownTables, TRUE,
                    prior, [k \in 0..0 |-> [b \in 1..2 |-> [p \in 1..2 |-> c]]],
                    2)

----------------------------------------------------------------------------
(* execute *)

Init ==
    \/ GeneralInit \/ BlockInit \/ AccumulationInit \/ DisturbanceInit
    \/ ReclassInit \/ SharedTableInit

NumBlocks == Len(C_prior_raster)

\* C_list = [C_prior] + C_r for the block being processed
C_r_block(b, k) == C_r_rasters[k][b]
C_list(b, k) == IF k = 0 THEN C_prior_raster[b] ELSE C_r_block(b, k - 1)

\* (mutation: the accumulation rates read from the previous raster,
\* C_list[i], as the half-lives are)
ReclassCallsPrevious(b) ==
    LET tr == d.transitions
    IN  [c \in 1..(5 * tr + 3) |->
            LET k == (c - 1) \div 5
                m == (c - 1) % 5
            IN  IF c > 5 * tr
                THEN [tab |-> <<"lulc_to_Sb", "lulc_to_Ss", "lulc_to_L">>[c - 5 * tr],
                      arr |-> C_prior_raster[b]]
                ELSE [tab |-> <<"lulc_to_Hb", "lulc_to_Hs", "lulc_to_L",
                                "lulc_to_Yb", "lulc_to_Ys">>[m + 1],
                      arr |-> C_list(b, k)]]

\* the reclass calls of one block in the order execute makes them: five per
\* transition, then the three baseline stocks
ReclassCalls(b) ==
    LET tr == d.transitions
    IN  [c \in 1..(5 * tr + 3) |->
            LET k == (c - 1) \div 5
                m == (c - 1) % 5
            IN  IF c > 5 * tr
                THEN [tab |-> <<"lulc_to_Sb", "lulc_to_Ss", "lulc_to_L">>[c - 5 * tr],
                      arr |-> C_prior_raster[b]]
                ELSE [tab |-> <<"lulc_to_Hb", "lulc_to_Hs", "lulc_to_L",
                                "lulc_to_Yb", "lulc_to_Ys">>[m + 1],
                      arr |-> IF m < 2 THEN C_list(b, k) ELSE C_r_block(b, k)]]

\* the number of calls that run: all of them, or those up to and including
\* the first whose v[index] raises IndexError (res: the calls' results)
CallsMade(res) ==
    LET raising == {c \in DOMAIN res : res[c].raised}
    IN  IF raising = {} THEN Len(res)
        ELSE CHOOSE c \in raising : \A r \in raising : c <= r

\* (mutation: the codes met without a value are remembered in the table,
\* with the sentinel as their value)
DictAfterRemembered(calls, made, tab) ==
    LET met == UNION {Range(calls[c].arr) : c \in {x \in 1..made : calls[x].tab = tab}}
    IN  IF \E c \in 1..made : calls[c].tab = tab
        THEN [key \in DOMAIN d[tab] \cup met \cup {FloatMin} |->
                 IF key \in DOMAIN d[tab] /\ key # FloatMin THEN d[tab][key]
                 ELSE FloatMin]
        ELSE d[tab]

\* the lookup dictionary as the block's reclass calls leave it
DictAfter(calls, made, tab) ==
    IF \E c \in 1..made : calls[c].tab = tab
    THEN WithNdata(d[tab]) ELSE d[tab]

\* (mutation: + typed for *)
DisturbedStockSum(Dk, Si) == ArrAdd(Dk, Si)

\* R[0] = D[0] * S[0], and in a transition year R[k] = D[k] * S[i]
DisturbedStock(Dk, Si) == ArrMul(Dk, Si)

\* (mutation: the baseline stock disturbed, not the stock of the timestep)
SetDisturbedBaseline(R, D, S, t) ==
    LET k == timestep_to_transition_idx(d.snapshot_years, d.transitions, t)
    IN  IF is_transition_year(d.snapshot_years, d.transitions, t)
        THEN [R EXCEPT ![k] = DisturbedStock(D[k], S[0])]
        ELSE R

\* (mutation: the disturbed stock set anew at every timestep)
SetDisturbedEveryStep(R, D, S, t) ==
    LET k == timestep_to_transition_idx(d.snapshot_years, d.transitions, t)
    IN  [R EXCEPT ![k] = DisturbedStock(D[k], S[t])]

\* Set disturbed stock values (the transition-year branch of the loop)
SetDisturbed(R, D, S, t) ==
    LET k == timestep_to_transition_idx(d.snapshot_years, d.transitions, t)
    IN  IF is_transition_year(d.snapshot_years, d.transitions, t)
        THEN [R EXCEPT ![k] = DisturbedStock(D[k], S[t])]
        ELSE R

\* Accumulation: A[i] = Y[transition_idx]
Accumulation(Y, t) ==
    Y[timestep_to_transition_idx(d.snapshot_years, d.transitions, t)]

\* (mutation: the decay counted from timestep 0, not from the transition)
DecayFactorFromZero(t, k) == Pow05(t) - Pow05(t + 1)

\* (mutation: the share still held, not the share released in the timestep)
DecayFactorHeld(t, k) ==
    Pow05(t - (d.transition_years[k] - d.transition_years[0]))

\* the half-life term of transition k at timestep t
DecayFactor(t, k) ==
    LET j == d.transition_years[k] - d.transition_years[0]
    IN  Pow05(t - j) - Pow05(t - j + 1)

RECURSIVE EmissionLoop(_, _, _, _, _)
EmissionLoop(R, t, k, last, acc) ==
    IF k > last THEN acc
    ELSE EmissionLoop(R, t, k + 1, last,
                      ArrAdd(acc, ArrScale(R[k], DecayFactor(t, k))))

\* Emissions: E[i] = sum over the transitions up to the current one
Emissions(R, t, n) ==
    EmissionLoop(R, t, 0,
                 timestep_to_transition_idx(d.snapshot_years, d.transitions, t),
                 Zeros(n))

\* (mutation: the emission added instead of subtracted)
NetSequestrationAdded(Ai, Ei) == ArrAdd(Ai, Ei)

\* Net Sequestration: N[i] = A[i] - E[i]
NetSequestration(Ai, Ei) == ArrSub(Ai, Ei)

\* (mutation: the net sequestration taken off the stock)
NextStockTaken(Si, Ni) == ArrSub(Si, Ni)

\* Next Stock: S[i+1] = S[i] + N[i]
NextStock(Si, Ni) == ArrAdd(Si, Ni)

\* Next Stock: T[i+1] = S_biomass[i+1] + S_soil[i+1] + S_litter[i+1]
TotalStock(Sb, Ss, Sl) == ArrAdd(ArrAdd(Sb, Ss), Sl)

\* Net Present Value: V[i] = (N_biomass[i] + N_soil[0]) * price_t[i]
Valuation(Nb, Ns, t) == ArrScale(ArrAdd(Nb[t], Ns[0]), d.price_t[t])

\* One block of the raster: allocate the arrays, reclassify the codes into
\* rates, fractions and baseline stocks, set R[0].  (The results of the
\* reclass calls are bound once, by \E over a singleton.)
BeginBlock ==
    /\ pc = "block"
    /\ block_idx < NumBlocks
    /\ \E calls \in {ReclassCalls(block_idx + 1)} :
       \E res \in {[c \in DOMAIN calls |->
                      reclass(calls[c].arr, d[calls[c].tab], C_nodata)]} :
       \E made \in {CallsMade(res)} :
       LET b         == block_idx + 1
           n         == Len(C_prior_raster[b])
           timesteps == d.timesteps
           tr        == d.transitions
           trs       == 0..(tr - 1)
           stock0    == [t \in 0..timesteps |-> Zeros(n)]
           step0     == [t \in 0..(timesteps - 1) |-> Zeros(n)]
           \* a call that raises stops execute before the assignment it
           \* stands in: its array and those of the later calls stay zero
           failed    == res[made].raised
           Stored(c) == IF ~failed \/ c < made THEN res[c].out ELSE Zeros(n)
           \* D[k] is assigned at the head of iteration k, before call 5k+1
           Begun(k)  == ~failed \/ made >= 5 * k + 1
           Db == [k \in trs |-> IF Begun(k)
                     THEN AsArray(reclass_transition(
                         C_list(b, k), C_list(b, k + 1), d.lulc_trans_to_Db, C_nodata))
                     ELSE Zeros(n)]
           Ds == [k \in trs |-> IF Begun(k)
                     THEN AsArray(reclass_transition(
                         C_list(b, k), C_list(b, k + 1), d.lulc_trans_to_Ds, C_nodata))
                     ELSE Zeros(n)]
           Sb0   == Stored(5 * tr + 1)
           Ss0   == Stored(5 * tr + 2)
           Sl0   == Stored(5 * tr + 3)
       IN  /\ block_idx' = b
           /\ d' = [d EXCEPT !.lulc_to_Hb = DictAfter(calls, made, "lulc_to_Hb"),
                             !.lulc_to_Hs = DictAfter(calls, made, "lulc_to_Hs"),
                             !.lulc_to_L  = DictAfter(calls, made, "lulc_to_L"),
                             !.lulc_to_Yb = DictAfter(calls, made, "lulc_to_Yb"),
                             !.lulc_to_Ys = DictAfter(calls, made, "lulc_to_Ys"),
                             !.lulc_to_Sb = DictAfter(calls, made, "lulc_to_Sb"),
                             !.lulc_to_Ss = DictAfter(calls, made, "lulc_to_Ss")]
           /\ pc' = IF res[made].raised THEN "failed" ELSE "transient"
           /\ D_biomass' = Db
           /\ D_soil' = Ds
           /\ H_biomass' = [k \in trs |-> Stored(5 * k + 1)]
           /\ H_soil' = [k \in trs |-> Stored(5 * k + 2)]
           /\ L' = [k \in trs |-> Stored(5 * k + 3)]
           /\ Y_biomass' = [k \in trs |-> Stored(5 * k + 4)]
           /\ Y_soil' = [k \in trs |-> Stored(5 * k + 5)]
           /\ S_biomass' = [stock0 EXCEPT ![0] = Sb0]
           /\ S_soil' = [stock0 EXCEPT ![0] = Ss0]
           /\ S_litter' = [stock0 EXCEPT ![0] = Sl0]
           /\ T' = IF failed THEN stock0
                   ELSE [stock0 EXCEPT ![0] = TotalStock(Sb0, Ss0, Sl0)]
           /\ R_biomass' = IF failed THEN [k \in trs |-> Zeros(n)]
                  ELSE [[k \in trs |-> Zeros(n)] EXCEPT ![0] = DisturbedStock(Db[0], Sb0)]
           /\ R_soil' = IF failed THEN [k \in trs |-> Zeros(n)]
                  ELSE [[k \in trs |-> Zeros(n)] EXCEPT ![0] = DisturbedStock(Ds[0], Ss0)]
           /\ A_biomass' = step0 /\ A_soil' = step0
           /\ E_biomass' = step0 /\ E_soil' = step0
           /\ N_biomass' = step0 /\ N_soil' = step0
           /\ V' = step0
           /\ i' = 0
    /\ UNCHANGED <<fileVars, out, transition_idx, otherVars>>

\* One iteration of the transient analysis, for timestep i
Timestep ==
    /\ pc = "transient"
    /\ i < d.timesteps
    /\ \E Rb \in {SetDisturbed(R_biomass, D_biomass, S_biomass, i)},
          Rs \in {SetDisturbed(R_soil, D_soil, S_soil, i)} :
       \E Ab \in {Accumulation(Y_biomass, i)},
          As \in {Accumulation(Y_soil, i)},
          Eb \in {Emissions(Rb, i, Len(S_biomass[0]))},
          Es \in {Emissions(Rs, i, Len(S_biomass[0]))} :
       \E Nb \in {[N_biomass EXCEPT ![i] = NetSequestration(Ab, Eb)]},
          Ns \in {[N_soil EXCEPT ![i] = NetSequestration(As, Es)]} :
       \E Sb1 \in {NextStock(S_biomass[i], Nb[i])},
          Ss1 \in {NextStock(S_soil[i], Ns[i])} :
           /\ transition_idx' =
                  timestep_to_transition_idx(d.snapshot_years, d.transitions, i)
           /\ R_biomass' = Rb
           /\ R_soil' = Rs
           /\ A_biomass' = [A_biomass EXCEPT ![i] = Ab]
           /\ A_soil' = [A_soil EXCEPT ![i] = As]
           /\ E_biomass' = [E_biomass EXCEPT ![i] = Eb]
           /\ E_soil' = [E_soil EXCEPT ![i] = Es]
           /\ N_biomass' = Nb
           /\ N_soil' = Ns
           /\ S_biomass' = [S_biomass EXCEPT ![i + 1] = Sb1]
           /\ S_soil' = [S_soil EXCEPT ![i + 1] = Ss1]
           /\ T' = [T EXCEPT ![i + 1] = TotalStock(Sb1, Ss1, S_litter[i + 1])]
           /\ V' = IF d.do_economic_analysis
                   THEN [V EXCEPT ![i] = Valuation(Nb, Ns, i)]
                   ELSE V
    /\ i' = i + 1
    /\ UNCHANGED <<d, fileVars, out, pc, block_idx, S_litter, transVars, otherVars>>

RECURSIVE SumSlice(_, _, _, _)
\* sum(X[lo:hi]): the timestep arrays lo..hi-1 added up from 0
SumSlice(X, lo, hi, n) ==
    IF hi <= lo THEN Zeros(n)
    ELSE ArrAdd(SumSlice(X, lo, hi - 1, n), X[hi - 1])

\* (mutation: every interval summed from timestep 0)
IntervalSumsFromZero(X, n) ==
    LET s_years       == d.snapshot_years
        num_snapshots == Cardinality(DOMAIN s_years)
    IN  [k \in 0..(num_snapshots - 2) |->
            SumSlice(X, 0, s_to_timestep(s_years, k + 1), n)]

\* A_r, E_r, N_r: the sums over each interval between two snapshots
IntervalSums(X, n) ==
    LET s_years       == d.snapshot_years
        num_snapshots == Cardinality(DOMAIN s_years)
    IN  [k \in 0..(num_snapshots - 2) |->
            SumSlice(X, s_to_timestep(s_years, k), s_to_timestep(s_years, k + 1), n)]

\* (mutation: the first timestep left out of the total)
GrandTotalFromOne(N, n) == SumSlice(N, 1, Cardinality(DOMAIN N), n)

\* N_total = sum(N): every row of N added up
GrandTotal(N, n) == SumSlice(N, 0, Cardinality(DOMAIN N), n)

\* T_s: the total stock at each snapshot
SnapshotStocks(Tot) ==
    LET s_years       == d.snapshot_years
        num_snapshots == Cardinality(DOMAIN s_years)
    IN  [k \in 0..(num_snapshots - 1) |-> Tot[s_to_timestep(s_years, k)]]

\* write_rasters: one write_to_raster per array of the list
write_rasters(array_list) ==
    [k \in DOMAIN array_list |-> write_to_raster(array_list[k])]

WriteOutputs ==
    /\ pc = "transient"
    /\ i = d.timesteps
    /\ LET n     == Len(S_biomass[0])
           steps == 0..(d.timesteps - 1)
           A     == [t \in steps |-> ArrAdd(A_biomass[t], A_soil[t])]
           E     == [t \in steps |-> ArrAdd(E_biomass[t], E_soil[t])]
           N     == [t \in steps |-> ArrAdd(N_biomass[t], N_soil[t])]
           written ==
               [T_s_rasters    |-> write_rasters(SnapshotStocks(T)),
                A_r_rasters    |-> write_rasters(IntervalSums(A, n)),
                E_r_rasters    |-> write_rasters(IntervalSums(E, n)),
                N_r_rasters    |-> write_rasters(IntervalSums(N, n)),
                N_total_raster |-> write_to_raster(GrandTotal(N, n)),
                NPV_raster     |-> IF d.do_economic_analysis
                                   THEN write_to_raster(SumSlice(V, 0, d.timesteps, n))
                                   ELSE << >>]
       IN  out' = out @@ (block_idx :> written)
    /\ pc' = IF block_idx < NumBlocks THEN "block" ELSE "done"
    /\ UNCHANGED <<d, fileVars, block_idx, i, transition_idx,
                   stockVars, fluxVars, transVars, distVars, otherVars>>

Next == BeginBlock \/ Timestep \/ WriteOutputs

Spec == Init /\ [][Next]_vars

\* coastal_blue_carbon.execute is not running
CbcIdle ==
    /\ d = << >>
    /\ C_prior_raster = << >> /\ C_r_rasters = << >> /\ C_nodata = 0
    /\ out = << >>
    /\ pc = "idle"
    /\ block_idx = 0 /\ i = 0 /\ transition_idx = 0
    /\ S_biomass = << >> /\ S_soil = << >> /\ S_litter = << >> /\ T = << >>
    /\ A_biomass = << >> /\ A_soil = << >> /\ E_biomass = << >>
    /\ E_soil = << >> /\ N_biomass = << >> /\ N_soil = << >> /\ V = << >>
    /\ L = << >> /\ Y_biomass = << >> /\ Y_soil = << >>
    /\ D_biomass = << >> /\ D_soil = << >>
    /\ H_biomass = << >> /\ H_soil = << >>
    /\ R_biomass = << >> /\ R_soil = << >>
cbcVars == <<d, fileVars, out, pc, block_idx, i, transition_idx,
             stockVars, fluxVars, transVars, distVars>>

----------------------------------------------------------------------------
(* reclass called on its own: an array reclassified through a mapping and *)
(* back through the inverse mapping                                        *)

\* largest number of pixels of the array of a round trip
MaxPixels == 3

\* the values a test table maps the codes to: -1.0, 0.5, 8.0, 100.0
TableValues == {-Scale, Half, Real(8), Real(100)}
\* complete mappings of the codes 1..3 with pairwise distinct values
Bijections ==
    {m \in [1..3 -> TableValues] : \A c1, c2 \in 1..3 : c1 # c2 => m[c1] # m[c2]}
\* {v: k for k, v in m.items()}
Inverse(m) == [v \in Range(m) |-> CHOOSE c \in DOMAIN m : m[c] = v]

RoundTripInit ==
    /\ CbcIdle
    /\ pre = << >> /\ wave = << >> /\ form = << >>
    /\ \E n \in 1..MaxPixels, m \in Bijections :
       \E a \in [1..n -> 1..3] :
           probe = [pc |-> "forward", a |-> a, m |-> m, inverse |-> Inverse(m),
                    b |-> << >>, back |-> << >>, raised |-> FALSE]

\* b = reclass(a, m, out_dtype=np.float32)
ReclassForward ==
    /\ probe.pc = "forward"
    /\ \E r \in {reclass(probe.a, probe.m, None)} :
           probe' = [probe EXCEPT !.pc = IF r.raised THEN "failed" ELSE "backward",
                                  !.b = r.out, !.m = r.dct, !.raised = r.raised]
    /\ UNCHANGED <<cbcVars, pre, wave, form>>

\* back = reclass(b, inverse, out_dtype=np.float32)
ReclassBackward ==
    /\ probe.pc = "backward"
    /\ \E r \in {reclass(probe.b, probe.inverse, None)} :
           probe' = [probe EXCEPT !.pc = IF r.raised THEN "failed" ELSE "done",
                                  !.back = r.out, !.inverse = r.dct,
                                  !.raised = r.raised]
    /\ UNCHANGED <<cbcVars, pre, wave, form>>

RoundTripNext == ReclassForward \/ ReclassBackward

RoundTripSpec == RoundTripInit /\ [][RoundTripNext]_vars

----------------------------------------------------------------------------
(* cbc_preprocessor: execute, and its functions called on a vars_dict *)

\* largest number of land-cover snapshots handed to the preprocessor
MaxSnapshots == 3

\* lulc_lookup_dict: code -> is_coastal_blue_carbon_habitat
LookupTables ==
    {[c \in 1..3 |-> c \in hab] : hab \in {{2}, {2, 3}, {1, 2, 3}}}
\* the values a snapshot raster may hold: codes of the lookup table and 9,
\* which the table does not hold
SnapshotValues == {1, 2, 3, 9}
\* a snapshot: the grid it lies on and its band, flattened
Snapshots == [grid : {"g1", "g2"}, band : [1..2 -> SnapshotValues]]

\* raster1.is_aligned(raster2)
is_aligned(raster1, raster2) == raster1.grid = raster2.grid

\* the keys of the vars_dict that _validate_inputs and _preprocess_data read
ValidatedKeys == {"lulc_snapshot_list", "lulc_lookup_dict", "workspace_dir"}
\* the keys that _create_transition_table reads besides the matrix
TableKeys == {"lulc_class_list", "code_to_lulc_dict", "results_suffix"}

\* the preprocessor's state: the rasters and the lookup table its inputs
\* name, the keys vars_dict holds, the directories that exist
PreState(entry, start, snaps, lookup, keys, workspace, outputs) ==
    [entry |-> entry, pc |-> start,
     lulc_snapshot_list |-> snaps, lulc_lookup_dict |-> lookup,
     keys |-> keys,
     workspace_exists |-> workspace, outputs_exists |-> outputs,
     error |-> "",
     transition_matrix_dict |-> << >>,
     transition_csv |-> << >>]

\* either execute is called on args, or _validate_inputs, _preprocess_data
\* and _create_transition_table are called in turn on a vars_dict that
\* holds the keys they read (all of them, or all but those of the table)
PreInit ==
    /\ CbcIdle
    /\ wave = << >> /\ form = << >> /\ probe = << >>
    /\ \E n \in 2..MaxSnapshots, lookup \in LookupTables :
       \E snaps \in [1..n -> Snapshots], workspace \in BOOLEAN :
           /\ snaps[1].grid = "g1"
           /\ \A k \in 1..n : snaps[k].band[2] \in {1, 2}
           /\ \/ /\ n = 2
                 /\ pre = PreState("execute", "_get_inputs", snaps, lookup,
                                   {}, workspace, FALSE)
              \/ \E outputs \in {FALSE, workspace}, complete \in BOOLEAN :
                    pre = PreState("direct", "_validate_inputs", snaps, lookup,
                                   IF complete THEN ValidatedKeys \cup TableKeys
                                   ELSE ValidatedKeys,
                                   workspace, outputs)

\* _get_derivative_inputs: vars_dict['lulc_lookup_uri'] is read first
_get_derivative_inputs(keys) ==
    IF "lulc_lookup_uri" \notin keys
    THEN [raised |-> "KeyError", keys |-> keys]
    ELSE [raised |-> "",
          keys |-> keys \cup {"lulc_lookup_dict", "code_to_lulc_dict",
                              "lulc_to_code_dict"}]

\* the error the two checks of _validate_inputs raise, "" if none
validation_error(snaps, lookup) ==
    LET raster_val_set == UNION {Range(snaps[k].band) : k \in DOMAIN snaps}
        code_set       == DOMAIN lookup
    IN  IF \E k \in 1..(Len(snaps) - 1) : ~is_aligned(snaps[k], snaps[k + 1])
        THEN "MisalignedRasters"
        ELSE IF raster_val_set \ code_set # {}
             THEN "NotAllClassesInLookupTable"
        ELSE ""

\* the states _validate_inputs may leave: the snapshot list or the lookup
\* table missing from vars_dict (read first), one of the two errors,
\* workspace_dir missing (read last), or the workspace made where it was
\* not there (os.makedirs may fail)
Validated(p, keys) ==
    IF ~({"lulc_snapshot_list", "lulc_lookup_dict"} \subseteq keys)
    THEN {[p EXCEPT !.pc = "failed", !.error = "KeyError", !.keys = keys]}
    ELSE LET err == validation_error(p.lulc_snapshot_list, p.lulc_lookup_dict)
         IN  IF err # ""
             THEN {[p EXCEPT !.pc = "failed", !.error = err, !.keys = keys]}
             ELSE IF "workspace_dir" \notin keys
                  THEN {[p EXCEPT !.pc = "failed", !.error = "KeyError",
                                  !.keys = keys]}
             ELSE IF p.workspace_exists
                  THEN {[p EXCEPT !.pc = "_preprocess_data", !.keys = keys]}
                  ELSE {[p EXCEPT !.pc = "_preprocess_data", !.keys = keys,
                                  !.workspace_exists = TRUE],
                        [p EXCEPT !.pc = "failed", !.error = "OSError",
                                  !.keys = keys]}

\* _get_inputs, as execute calls it: vars_dict starts empty, whatever args
\* holds, and goes to _get_derivative_inputs, then to _validate_inputs
_get_inputs ==
    /\ pre.pc = "_get_inputs"
    /\ LET vars_dict == {}
           derived   == _get_derivative_inputs(vars_dict)
       IN  IF derived.raised # ""
           THEN pre' = [pre EXCEPT !.pc = "failed", !.error = derived.raised]
           ELSE pre' \in Validated(pre, derived.keys)
    /\ UNCHANGED <<cbcVars, wave, form, probe>>

\* _validate_inputs, called on a vars_dict
_validate_inputs ==
    /\ pre.pc = "_validate_inputs"
    /\ pre' \in Validated(pre, pre.keys)
    /\ UNCHANGED <<cbcVars, wave, form, probe>>

\* (mutation: a habitat gained out of no habitat marked as a disturbance)
_mark_transition_type_swapped(lookup_dict, lulc_from, lulc_to) ==
    IF lookup_dict[lulc_from] /\ lookup_dict[lulc_to] THEN "accumulation"
    ELSE IF ~lookup_dict[lulc_from] /\ lookup_dict[lulc_to] THEN "disturbance"
    ELSE IF lookup_dict[lulc_from] /\ ~lookup_dict[lulc_to] THEN "accumulation"
    ELSE "unchanged"

\* _mark_transition_type: the cell of the pair (lulc_from, lulc_to)
_mark_transition_type(lookup_dict, lulc_from, lulc_to) ==
    IF lookup_dict[lulc_from] /\ lookup_dict[lulc_to] THEN "accumulation"
    ELSE IF ~lookup_dict[lulc_from] /\ lookup_dict[lulc_to] THEN "accumulation"
    ELSE IF lookup_dict[lulc_from] /\ ~lookup_dict[lulc_to] THEN "disturbance"
    ELSE "unchanged"

\* _get_land_cover_transitions: set(zip(band_t1, band_t2))
_get_land_cover_transitions(raster_t1, raster_t2) ==
    {<<raster_t1.band[p], raster_t2.band[p]>> : p \in DOMAIN raster_t1.band}

\* _preprocess_data: the matrix starts blank over every ordered pair of
\* codes; the pairs met in consecutive snapshots are marked
_preprocess_data ==
    /\ pre.pc = "_preprocess_data"
    /\ LET lookup == pre.lulc_lookup_dict
           snaps  == pre.lulc_snapshot_list
           met    == UNION {_get_land_cover_transitions(snaps[k], snaps[k + 1]) :
                               k \in 1..(Len(snaps) - 1)}
       IN  pre' = [pre EXCEPT
                     !.pc = "_create_transition_table",
                     !.keys = @ \cup {"transition_matrix_dict"},
                     !.transition_matrix_dict =
                         [pr \in (DOMAIN lookup) \X (DOMAIN lookup) |->
                             IF pr \in met
                             THEN _mark_transition_type(lookup, pr[1], pr[2])
                             ELSE ""]]
    /\ UNCHANGED <<cbcVars, wave, form, probe>>

\* _create_transition_table: vars_dict['lulc_class_list'] is read first;
\* the file is opened in <workspace_dir>/outputs, which nothing here makes;
\* one row per class, one column per class
_create_transition_table ==
    /\ pre.pc = "_create_transition_table"
    /\ IF ~(TableKeys \subseteq pre.keys)
       THEN pre' = [pre EXCEPT !.pc = "failed", !.error = "KeyError"]
       ELSE IF ~pre.outputs_exists
            THEN pre' = [pre EXCEPT !.pc = "failed", !.error = "IOError"]
            ELSE pre' = [pre EXCEPT
                 !.pc = "done",
                 !.transition_csv =
                     [from \in DOMAIN pre.lulc_lookup_dict |->
                         [to \in DOMAIN pre.lulc_lookup_dict |->
                             pre.transition_matrix_dict[<<from, to>>]]]]
    /\ UNCHANGED <<cbcVars, wave, form, probe>>

PreNext ==
    \/ _get_inputs \/ _validate_inputs
    \/ _preprocess_data \/ _create_transition_table

PreSpec == PreInit /\ [][PreNext]_vars

----------------------------------------------------------------------------
(* wave_energy: validate and the net present value of a wave farm *)

_LIFE_SPAN == 25

\* the keys validate requires
RequiredKeys ==
    {"workspace_dir", "wave_base_data_path", "analysis_area_path",
     "machine_perf_path", "machine_param_path", "dem_path"}
\* what args holds for a key: nothing, an empty value ('' or None), a value
KeyStates == {"absent", "empty", "value"}

\* `a_list > 0`: true for every list where lists and integers are ordered
\* by type (Python 2), a TypeError where they are not ordered (Python 3)
list_gt_int(build) == IF build = "python2" THEN "True" ELSE "TypeError"

\* the net present value is held as a multiple of 2^-24; rho is 1 (discount
\* rate 0) or 1/2 (discount rate 1), so rho^t for t < 25 is exact
NpvScale == 16777216
Pow2(n) == IF n = 0 THEN 1 ELSE IF n = 1 THEN 2 ELSE IF n = 2 THEN 4
           ELSE IF n = 3 THEN 8 ELSE IF n = 4 THEN 16 ELSE IF n = 5 THEN 32
           ELSE IF n = 6 THEN 64 ELSE IF n = 7 THEN 128 ELSE IF n = 8 THEN 256
           ELSE IF n = 9 THEN 512 ELSE IF n = 10 THEN 1024
           ELSE IF n = 11 THEN 2048 ELSE IF n = 12 THEN 4096
           ELSE IF n = 13 THEN 8192 ELSE IF n = 14 THEN 16384
           ELSE IF n = 15 THEN 32768 ELSE IF n = 16 THEN 65536
           ELSE IF n = 17 THEN 131072 ELSE IF n = 18 THEN 262144
           ELSE IF n = 19 THEN 524288 ELSE IF n = 20 THEN 1048576
           ELSE IF n = 21 THEN 2097152 ELSE IF n = 22 THEN 4194304
           ELSE IF n = 23 THEN 8388608 ELSE NpvScale
\* rho ** t, as a multiple of 2^-24, for rho = 1.0 / (1.0 + drate)
RhoPow(drate, t) == IF drate = 0 THEN NpvScale ELSE Pow2(24 - t)

WaveInit ==
    /\ CbcIdle
    /\ pre = << >> /\ form = << >> /\ probe = << >>
    /\ \/ \E args \in [RequiredKeys -> KeyStates], build \in {"python2", "python3"} :
             wave = [op |-> "validate", pc |-> "call", args |-> args,
                     build |-> build, raised |-> "", warnings |-> {}]
       \/ \E rows \in 1..(_LIFE_SPAN + 1), drate \in {0, 1},
             captured_wave_energy \in {0, 1}, units \in {1, 2},
             price \in {1, 2}, omc \in {0, 1}, initial_cost \in {0, 1, 3} :
             wave = [op |-> "npv", pc |-> "call", rows |-> rows, drate |-> drate,
                     captured_wave_energy |-> captured_wave_energy,
                     units |-> units, price |-> price, omc |-> omc,
                     initial_cost |-> initial_cost,
                     annual_revenue |-> << >>, annual_cost |-> << >>,
                     raised |-> "", npv_result |-> 0, edited |-> FALSE,
                     NPV_25Y |-> None]

\* validate, lines 1746-1763; the statements after them are reached in no
\* build, `missing_keys > 0` being true or an error for every list
validate ==
    /\ wave.op = "validate" /\ wave.pc = "call"
    /\ LET keys_missing_value == {k \in RequiredKeys : wave.args[k] = "empty"}
           missing_keys       == {k \in RequiredKeys : wave.args[k] = "absent"}
           gt                 == list_gt_int(wave.build)
       IN  IF gt = "TypeError"
           THEN wave' = [wave EXCEPT !.pc = "raised", !.raised = "TypeError"]
           ELSE IF gt = "True"
                THEN wave' = [wave EXCEPT !.pc = "raised", !.raised = "KeyError"]
                ELSE wave' = [wave EXCEPT !.pc = "returned"]
    /\ UNCHANGED <<cbcVars, pre, form, probe>>

\* _calc_npv_wave: i is the variable of execute's loop over the rows of the
\* machine performance table (line 123), read by the closure: unbound if
\* the table has no row, the index of the last row otherwise
_calc_npv_wave(annual_revenue, annual_cost, drate, rows) ==
    IF rows = 0 THEN [raised |-> "NameError", npv |-> 0]
    ELSE IF rows - 1 >= _LIFE_SPAN THEN [raised |-> "IndexError", npv |-> 0]
    ELSE LET RECURSIVE sum(_)
             sum(t) == IF t = _LIFE_SPAN THEN 0
                       ELSE RhoPow(drate, t)
                              * (annual_revenue[rows] - annual_cost[rows])
                            + sum(t + 1)
         IN  [raised |-> "", npv |-> sum(0)]

\* _add_npv_field_to_vector, for one wave farm site, up to pdb.set_trace()
\* (line 666), where the run waits at the debugger's prompt with npv_result
\* computed and no field set. Amounts are held in thousands: captured_we is
\* int(captured_wave_energy) * 1000.0 and the result is divided by 1000.0.
\* The arrays are indexed from 1 (year t is entry t + 1).
_add_npv_field_to_vector ==
    /\ wave.op = "npv" /\ wave.pc = "call"
    /\ LET captured_we    == [t \in 1.._LIFE_SPAN |->
                                 IF t = 1 THEN 0 ELSE wave.captured_wave_energy]
           annual_revenue == [t \in 1.._LIFE_SPAN |->
                                 wave.price * wave.units * captured_we[t]]
           annual_cost    == [t \in 1.._LIFE_SPAN |->
                                 IF t = 1 THEN wave.initial_cost
                                 ELSE wave.omc * captured_we[t] * wave.units]
       IN  \E r \in {_calc_npv_wave(annual_revenue, annual_cost,
                                    wave.drate, wave.rows)} :
             IF r.raised # ""
             THEN wave' = [wave EXCEPT !.pc = "raised", !.raised = r.raised,
                                       !.annual_revenue = annual_revenue,
                                       !.annual_cost = annual_cost]
             ELSE wave' = [wave EXCEPT !.pc = "pdb",
                                       !.npv_result = r.npv,
                                       !.annual_revenue = annual_revenue,
                                       !.annual_cost = annual_cost]
    /\ UNCHANGED <<cbcVars, pre, form, probe>>

\* the values a statement typed at the prompt may give npv_result
DebuggerValues == {0, 42 * NpvScale}

\* at the prompt, a statement that assigns npv_result
pdb_assign ==
    /\ wave.op = "npv" /\ wave.pc = "pdb"
    /\ \E value \in DebuggerValues \ {wave.npv_result} :
          wave' = [wave EXCEPT !.npv_result = value, !.edited = TRUE]
    /\ UNCHANGED <<cbcVars, pre, form, probe>>

\* at the prompt, `continue`: the run goes on to
\* feat_npv.SetField(npv_index, npv_result) (lines 667-671)
pdb_continue ==
    /\ wave.op = "npv" /\ wave.pc = "pdb"
    /\ wave' = [wave EXCEPT !.pc = "written", !.NPV_25Y = wave.npv_result]
    /\ UNCHANGED <<cbcVars, pre, form, probe>>

\* at the prompt, `quit` or the end of the input: BdbQuit, no field is set
pdb_quit ==
    /\ wave.op = "npv" /\ wave.pc = "pdb"
    /\ wave' = [wave EXCEPT !.pc = "raised", !.raised = "BdbQuit"]
    /\ UNCHANGED <<cbcVars, pre, form, probe>>

WaveNext ==
    \/ validate \/ _add_npv_field_to_vector
    \/ pdb_assign \/ pdb_continue \/ pdb_quit

WaveSpec == WaveInit /\ [][WaveNext]_vars

----------------------------------------------------------------------------
(* ui.fisheries: the Fisheries form *)

RecruitmentTypes == {"Beverton-Holt", "Ricker", "Fecundity", "Fixed"}
RecruitmentParameters == {"spawn_units", "alpha", "beta", "total_recur_recruits"}
\* the dropdowns of the form no handler listens to, and their options
PlainDropdowns ==
    [population_type |-> {"Age-Based", "Stage-Based"},
     sexsp           |-> {"No", "Yes"},
     harvest_units   |-> {"Individuals", "Weight"},
     spawn_units     |-> {"Individuals", "Weight"}]

\* Fisheries.__init__: every dropdown shows its first option; every input
\* is interactive but the population CSV folder
FormInit ==
    /\ CbcIdle
    /\ pre = << >> /\ wave = << >> /\ probe = << >>
    /\ form = [recruitment_type |-> "Beverton-Holt",
               value |-> [population_type |-> "Age-Based", sexsp |-> "No",
                          harvest_units |-> "Individuals",
                          spawn_units |-> "Individuals"],
               do_batch |-> FALSE,
               interactive |-> [spawn_units |-> TRUE, alpha |-> TRUE,
                                beta |-> TRUE, total_recur_recruits |-> TRUE,
                                population_csv_uri |-> TRUE,
                                population_csv_dir |-> FALSE],
               changed |-> FALSE]

\* _control_recruitment_parameters: the four parameters are made
\* non-interactive, then those of the selected function interactive
_control_recruitment_parameters(interactive, value) ==
    [p \in DOMAIN interactive |->
        IF p \notin RecruitmentParameters THEN interactive[p]
        ELSE IF value = "Beverton-Holt" THEN p # "total_recur_recruits"
        ELSE IF value = "Fixed" THEN p = "total_recur_recruits"
        ELSE FALSE]

\* the user selects another recruitment function: value_changed calls
\* _control_recruitment_parameters
select_recruitment_type ==
    /\ form # << >>
    /\ \E value \in RecruitmentTypes \ {form.recruitment_type} :
          form' = [form EXCEPT
                     !.recruitment_type = value,
                     !.interactive = _control_recruitment_parameters(@, value),
                     !.changed = TRUE]
    /\ UNCHANGED <<cbcVars, pre, wave, probe>>

\* the user selects an option of a dropdown no handler listens to; an
\* input that is not interactive cannot be edited
select_option ==
    /\ form # << >>
    /\ \E k \in DOMAIN PlainDropdowns : \E value \in PlainDropdowns[k] :
          /\ k = "spawn_units" => form.interactive["spawn_units"]
          /\ value # form.value[k]
          /\ form' = [form EXCEPT !.value[k] = value]
    /\ UNCHANGED <<cbcVars, pre, wave, probe>>

\* the user toggles the batch checkbox: sufficiency_changed calls
\* population_csv_uri.set_noninteractive and population_csv_dir.set_interactive
toggle_do_batch ==
    /\ form # << >>
    /\ form' = [form EXCEPT
                  !.do_batch = ~@,
                  !.interactive["population_csv_uri"] = form.do_batch,
                  !.interactive["population_csv_dir"] = ~form.do_batch]
    /\ UNCHANGED <<cbcVars, pre, wave, probe>>

FormNext == select_recruitment_type \/ select_option \/ toggle_do_batch

FormSpec == FormInit /\ [][FormNext]_vars

----------------------------------------------------------------------------
(* Soundness of the fixed point: every product the run has formed is exact *)

Pixels == IF pc = "block" /\ block_idx = 0 THEN {} ELSE DOMAIN S_biomass[0]
\* timesteps whose arrays the transient loop has filled in
Done == IF pc = "block" /\ block_idx = 0 THEN {} ELSE 0..(i - 1)
\* transitions whose disturbed stock has been set (none where the block's
\* set-up has failed: R[0] is assigned after the last reclass call)
Started ==
    IF (pc = "block" /\ block_idx = 0) \/ pc = "failed" THEN {}
    ELSE {k \in 0..(d.transitions - 1) : k = 0 \/ s_to_timestep(d.snapshot_years, k) < i}

Float32Exact ==
    \A p \in Pixels :
        /\ \A k \in Started :
              LET t0 == s_to_timestep(d.snapshot_years, k)
              IN  /\ MulExact(D_biomass[k][p], S_biomass[t0][p])
                  /\ MulExact(D_soil[k][p], S_soil[t0][p])
        /\ \A t \in Done :
              /\ \A k \in 0..timestep_to_transition_idx(d.snapshot_years, d.transitions, t) :
                    /\ t - s_to_timestep(d.snapshot_years, k) + 1 <= 15
                    /\ MulExact(R_biomass[k][p], DecayFactor(t, k))
                    /\ MulExact(R_soil[k][p], DecayFactor(t, k))
              /\ Exact32(S_biomass[t + 1][p])
              /\ Exact32(S_soil[t + 1][p])
              /\ Exact32(T[t + 1][p])
              /\ Exact32(E_biomass[t][p]) /\ Exact32(E_soil[t][p])
              /\ Exact32(N_biomass[t][p]) /\ Exact32(N_soil[t][p])
              /\ Exact32(V[t][p])
        /\ \A b \in DOMAIN out : b = block_idx =>
              /\ \A k \in DOMAIN out[b].N_r_rasters :
                    /\ Exact32(out[b].A_r_rasters[k][p])
                    /\ Exact32(out[b].E_r_rasters[k][p])
                    /\ Exact32(out[b].N_r_rasters[k][p])
              /\ Exact32(out[b].N_total_raster[p])
              /\ d.do_economic_analysis => Exact32(out[b].NPV_raster[p])

----------------------------------------------------------------------------
(* Properties *)

Years == d.snapshot_years
Transitions == d.transitions
\* the first timestep of transition k (snapshot_to_timestep of k)
StartOf(k) == Years[k] - Years[0]
\* the transition whose interval of timesteps holds t
ActiveAt(t) ==
    CHOOSE k \in 0..(Transitions - 1) : StartOf(k) <= t /\ t < StartOf(k + 1)
\* the timesteps whose stock has been computed
Stocked == IF Pixels = {} THEN {} ELSE 0..i

\* C1: in the transient loop, for every timestep t already processed and both
\* pools, N[t] = A[t] - E[t] and S[t+1] = S[t] + N[t].
C1_StockRecurrence ==
    \A p \in Pixels : \A t \in Done :
        /\ N_biomass[t][p] = FSub(A_biomass[t][p], E_biomass[t][p])
        /\ N_soil[t][p] = FSub(A_soil[t][p], E_soil[t][p])
        /\ S_biomass[t + 1][p] = FAdd(S_biomass[t][p], N_biomass[t][p])
        /\ S_soil[t + 1][p] = FAdd(S_soil[t][p], N_soil[t][p])

\* a pixel that both accumulates and emits, in both pools, two timesteps on
C1_Witness ==
    \E p \in Pixels : \E t \in Done :
        /\ t >= 1
        /\ A_biomass[t][p] # 0 /\ E_biomass[t][p] # 0
        /\ A_soil[t][p] # 0 /\ E_soil[t][p] # 0
        /\ N_biomass[t][p] # 0 /\ N_soil[t][p] # 0

RECURSIVE HalfLifeSum(_, _, _, _)
\* sum over the transitions 0..k of R[k] * (0.5^(t-j) - 0.5^(t-j+1)), j the
\* first timestep of transition k
HalfLifeSum(R, t, p, k) ==
    IF k < 0 THEN 0
    ELSE FAdd(HalfLifeSum(R, t, p, k - 1),
              FSub(FMul(R[k][p], Pow05(t - StartOf(k))),
                   FMul(R[k][p], Pow05(t - StartOf(k) + 1))))

\* C2: the emission of a processed timestep t is the half-life sum over the
\* transitions from 0 up to and including the one active at t, each decaying
\* from the timestep at which it began; later transitions add nothing.
C2_EmissionSum ==
    \A p \in Pixels : \A t \in Done :
        /\ E_biomass[t][p] = HalfLifeSum(R_biomass, t, p, ActiveAt(t))
        /\ E_soil[t][p] = HalfLifeSum(R_soil, t, p, ActiveAt(t))

\* a timestep at which two transitions, the later one begun after timestep
\* 0, both contribute to the emission
C2_Witness ==
    \E p \in Pixels : \E t \in Done :
        /\ ActiveAt(t) >= 1
        /\ t > StartOf(ActiveAt(t))
        /\ R_biomass[0][p] # 0
        /\ R_biomass[ActiveAt(t)][p] # 0

\* C3: once transition k has begun, R[k] = D[k] * S[start of k] in both
\* pools; transition 0 begins at timestep 0, so R[0] = D[0] * S[0].
C3_DisturbedSnapshot ==
    \A p \in Pixels : \A k \in Started :
        /\ R_biomass[k][p] = FMul(D_biomass[k][p], S_biomass[StartOf(k)][p])
        /\ R_soil[k][p] = FMul(D_soil[k][p], S_soil[StartOf(k)][p])
        /\ k = 0 => /\ R_biomass[0][p] = FMul(D_biomass[0][p], S_biomass[0][p])
                    /\ R_soil[0][p] = FMul(D_soil[0][p], S_soil[0][p])

\* a later transition that froze a nonzero share of a stock that had moved
\* away from the baseline by then
C3_Witness ==
    \E p \in Pixels : \E k \in Started :
        /\ k >= 1
        /\ R_biomass[k][p] # 0
        /\ R_biomass[k][p] # S_biomass[StartOf(k)][p]
        /\ S_biomass[StartOf(k)][p] # S_biomass[0][p]

\* C4: for every valid timestep the resolver returns the smallest i with
\* t < snapshot_years[i+1] - snapshot_years[0], and that is the one
\* transition k with s_to_timestep(k) <= t < s_to_timestep(k+1); the
\* transient loop's transition_idx is that transition.
C4_TransitionResolved ==
    /\ \A t \in 0..(d.timesteps - 1) :
          LET r == timestep_to_transition_idx(Years, Transitions, t)
          IN  /\ r \in 0..(Transitions - 1)
              /\ t < Years[r + 1] - Years[0]
              /\ \A k \in 0..(r - 1) : ~(t < Years[k + 1] - Years[0])
              /\ s_to_timestep(Years, r) <= t
              /\ t < s_to_timestep(Years, r + 1)
              /\ \A k \in 0..(Transitions - 1) :
                    (s_to_timestep(Years, k) <= t /\ t < s_to_timestep(Years, k + 1))
                        => k = r
    /\ (pc = "transient" /\ i > 0) =>
          /\ StartOf(transition_idx) <= i - 1
          /\ i - 1 < StartOf(transition_idx + 1)

\* the loop has reached the third transition of unevenly spaced snapshots
C4_Witness ==
    /\ pc = "transient" /\ i > 0
    /\ transition_idx = 2
    /\ Years[1] - Years[0] # Years[2] - Years[1]
    /\ i - 1 > StartOf(2)

\* the timesteps at which is_transition_year holds
TransitionYears ==
    {t \in 0..(d.timesteps - 1) : is_transition_year(Years, Transitions, t)}

\* C5: is_transition_year holds exactly at the first timestep of each
\* transition 1..transitions-1: at transitions-1 timesteps, none of them 0.
C5_TransitionYears ==
    /\ TransitionYears = {StartOf(k) : k \in 1..(Transitions - 1)}
    /\ Cardinality(TransitionYears) = Transitions - 1
    /\ \A t \in TransitionYears : t > 0
    /\ ~is_transition_year(Years, Transitions, 0)

\* the loop has just processed the transition year of the third transition
C5_Witness ==
    /\ pc = "transient" /\ i > 0
    /\ Transitions = 3
    /\ is_transition_year(Years, Transitions, i - 1)
    /\ transition_idx = 2
    /\ ~is_transition_year(Years, Transitions, i - 2)

\* a pixel whose accumulation rate and disturbance fraction are zero in
\* every transition and both pools
Inert(p) ==
    \A k \in 0..(Transitions - 1) :
        /\ Y_biomass[k][p] = 0 /\ Y_soil[k][p] = 0
        /\ D_biomass[k][p] = 0 /\ D_soil[k][p] = 0

\* C6: stock conservation: an inert pixel keeps its baseline stock at every
\* timestep, in both pools.
C6_Conservation ==
    \A p \in Pixels :
        Inert(p) => \A t \in Stocked :
                        /\ S_biomass[t][p] = S_biomass[0][p]
                        /\ S_soil[t][p] = S_soil[0][p]

\* an inert pixel holding carbon, at the end of a run of three transitions
C6_Witness ==
    \E p \in Pixels :
        /\ Inert(p)
        /\ S_biomass[0][p] # 0 /\ S_soil[0][p] # 0
        /\ Transitions = 3
        /\ i = d.timesteps

RECURSIVE CumEmission(_, _, _, _)
\* the emission of pixel p summed over the timesteps j..n
CumEmission(E, p, j, n) ==
    IF n < j THEN 0 ELSE CumEmission(E, p, j, n - 1) + E[n][p]

\* transition k0 is the only one that disturbed pixel p, and the stock it
\* disturbed is a number of ordinary size
SoleDisturbance(R, p, k0) ==
    /\ R[k0][p] # 0
    /\ IsOrdinary(R[k0][p])
    /\ \A k \in 0..(Transitions - 1) : k # k0 => R[k][p] = 0

\* the half-life law of one disturbance R0 frozen at timestep j, over the
\* processed timesteps: nothing is emitted before j; the emission summed
\* over j..n is R0 * (1 - 0.5^(n-j+1)), never above R0, never falling, and
\* from the tenth timestep on at least 99.9% of R0
HalfLifeLaw(R, E, p, k0) ==
    LET j  == StartOf(k0)
        R0 == R[k0][p]
    IN  \A n \in Done :
            IF n < j THEN E[n][p] = 0
            ELSE LET c == CumEmission(E, p, j, n)
                 IN  /\ c = R0 - R0 \div 2^(n - j + 1)
                     /\ c <= R0
                     /\ c >= CumEmission(E, p, j, n - 1)
                     /\ n - j + 1 >= 10 => (R0 - c) * 1000 <= R0

\* C7: half-life decay: where one transition alone disturbed a pixel, the
\* cumulative emission follows R0 * (1 - 0.5^(n-j+1)): non-decreasing, at
\* most R0, and at least 99.9% of R0 well within 50 timesteps.
C7_HalfLifeDecay ==
    \A p \in Pixels : \A k0 \in Started :
        /\ SoleDisturbance(R_biomass, p, k0) => HalfLifeLaw(R_biomass, E_biomass, p, k0)
        /\ SoleDisturbance(R_soil, p, k0) => HalfLifeLaw(R_soil, E_soil, p, k0)

\* a single disturbance, in each pool, that has decayed for ten timesteps
\* or more
C7_Witness ==
    \E p \in Pixels : \E k0 \in Started :
        /\ SoleDisturbance(R_biomass, p, k0)
        /\ SoleDisturbance(R_soil, p, k0)
        /\ i - StartOf(k0) >= 10

\* the current block's codes of pixel p: baseline and transition raster k
PriorCode(p) == C_prior_raster[block_idx][p]
NextCode(k, p) == C_r_rasters[k][block_idx][p]

\* the accumulation scenario at pixel p: no habitat (1) at the baseline, a
\* habitat (2) in the one transition raster, snapshot years [2000, 2010],
\* yearly biomass accumulation 1.0, nothing disturbed on the way in
AccumulationScenario(p) ==
    /\ Transitions = 1
    /\ Years[0] = 2000 /\ Years[1] = 2010
    /\ d.timesteps = 10
    /\ PriorCode(p) = 1 /\ NextCode(0, p) = 2
    /\ d.lulc_to_Yb[2] = Real(1)
    /\ d.lulc_trans_to_Db[<<1, 2>>] = 0

\* C8: in the accumulation scenario the biomass stock after the ten
\* timesteps is the baseline stock plus 10.
C8_AccumulationScenario ==
    \A p \in Pixels :
        (AccumulationScenario(p) /\ i = 10) =>
            S_biomass[10][p] = S_biomass[0][p] + Real(10)

\* the scenario has run to its end on a block all of whose pixels are in it
C8_Witness ==
    /\ Pixels # {}
    /\ i = 10
    /\ \A p \in Pixels : AccumulationScenario(p) /\ S_biomass[0][p] # 0

\* the disturbance scenario at pixel p: a habitat (2) holding 100 that
\* neither accumulates nor is disturbed until its conversion to no habitat
\* (1), with disturbance fraction 1.0, begins at timestep 5
DisturbanceScenario(p) ==
    /\ Transitions = 2
    /\ StartOf(1) = 5
    /\ PriorCode(p) = 2 /\ NextCode(0, p) = 2 /\ NextCode(1, p) = 1
    /\ S_biomass[0][p] = Real(100)
    /\ Y_biomass[0][p] = 0 /\ Y_biomass[1][p] = 0
    /\ D_biomass[0][p] = 0 /\ D_biomass[1][p] = Real(1)

\* C9 as stated: in the disturbance scenario the emission at timestep 6 is
\* 100 * (0.5^0 - 0.5^1) = 50.
C9_EmissionAtSix ==
    \A p \in Pixels :
        (DisturbanceScenario(p) /\ i >= 7) => E_biomass[6][p] = Real(50)

\* C9 amended: in the disturbance scenario the emission is 50 at timestep 5,
\* the first timestep of the conversion, and 25 at timestep 6; from timestep
\* 5 on the stock halves every timestep, 100 * 0.5^(t-5), falling toward 0.
C9_DisturbanceScenario ==
    \A p \in Pixels :
        DisturbanceScenario(p) =>
            /\ i >= 6 => E_biomass[5][p] = Real(50)
            /\ i >= 7 => E_biomass[6][p] = Real(25)
            /\ \A t \in Stocked :
                  /\ t <= 5 => S_biomass[t][p] = Real(100)
                  /\ t >= 5 => S_biomass[t][p] = Real(100) \div 2^(t - 5)
                  /\ t > 5 => /\ S_biomass[t][p] < S_biomass[t - 1][p]
                              /\ S_biomass[t][p] > 0

\* the scenario has run nine timesteps past the conversion
C9_Witness ==
    \E p \in Pixels : DisturbanceScenario(p) /\ i = 14

\* C10: the total stock holds the litter pool at every timestep, carried at
\* its baseline value, and so does every snapshot stock raster written.
C10_LitterInTotal ==
    /\ \A p \in Pixels : \A t \in Stocked :
          T[t][p] = FAdd(FAdd(S_biomass[t][p], S_soil[t][p]), S_litter[0][p])
    /\ \A b \in DOMAIN out : \A k \in DOMAIN out[b].T_s_rasters :
          b = block_idx =>
              \A p \in Pixels :
                  out[b].T_s_rasters[k][p] =
                      FAdd(FAdd(S_biomass[StartOf(k)][p], S_soil[StartOf(k)][p]),
                           S_litter[0][p])

\* the block whose outputs have just been written, its arrays still in place
WrittenBlock == block_idx \in DOMAIN out

RECURSIVE PoolSum(_, _, _, _)
\* the values of pixel p in the timestep arrays lo..hi-1, added up from the
\* last one
PoolSum(X, p, lo, hi) ==
    IF hi <= lo THEN 0 ELSE FAdd(X[lo][p], PoolSum(X, p, lo + 1, hi))

\* C11: aggregation identity: each interval raster written for transition k
\* holds, for accumulation, emission and net sequestration alike, the sum
\* over the timesteps s_to_timestep(k) <= t < s_to_timestep(k+1) of the
\* biomass array plus the sum over them of the soil array.
C11_AggregationIdentity ==
    WrittenBlock =>
        /\ DOMAIN out[block_idx].N_r_rasters = 0..(Transitions - 1)
        /\ DOMAIN out[block_idx].A_r_rasters = 0..(Transitions - 1)
        /\ DOMAIN out[block_idx].E_r_rasters = 0..(Transitions - 1)
        /\ \A p \in Pixels : \A k \in 0..(Transitions - 1) :
              LET lo == s_to_timestep(Years, k)
                  hi == s_to_timestep(Years, k + 1)
              IN  /\ out[block_idx].N_r_rasters[k][p] =
                        FAdd(PoolSum(N_biomass, p, lo, hi), PoolSum(N_soil, p, lo, hi))
                  /\ out[block_idx].A_r_rasters[k][p] =
                        FAdd(PoolSum(A_biomass, p, lo, hi), PoolSum(A_soil, p, lo, hi))
                  /\ out[block_idx].E_r_rasters[k][p] =
                        FAdd(PoolSum(E_biomass, p, lo, hi), PoolSum(E_soil, p, lo, hi))

\* a written block of three intervals, the second of two timesteps or more,
\* whose net sequestration is nonzero in both pools and differs per interval
C11_Witness ==
    /\ WrittenBlock
    /\ Transitions = 3
    /\ StartOf(2) - StartOf(1) >= 2
    /\ \E p \in Pixels :
          /\ PoolSum(N_biomass, p, StartOf(1), StartOf(2)) # 0
          /\ PoolSum(N_soil, p, StartOf(1), StartOf(2)) # 0
          /\ out[block_idx].N_r_rasters[1][p] # out[block_idx].N_r_rasters[0][p]
          /\ out[block_idx].E_r_rasters[1][p] # 0
          /\ out[block_idx].A_r_rasters[1][p] # 0

RECURSIVE RasterSum(_, _, _)
\* the values of pixel p in the rasters 0..k of a list, added up
RasterSum(rasters, p, k) ==
    IF k < 0 THEN 0 ELSE FAdd(RasterSum(rasters, p, k - 1), rasters[k][p])

\* C12: the grand total written is the sum of N_biomass[t] + N_soil[t] over
\* the timesteps 0..timesteps-1; every one of those timesteps lies in one
\* interval exactly, and the total is the sum of the interval rasters N_r.
C12_GrandTotal ==
    WrittenBlock =>
        /\ \A t \in 0..(d.timesteps - 1) :
              Cardinality({k \in 0..(Transitions - 1) :
                              StartOf(k) <= t /\ t < StartOf(k + 1)}) = 1
        /\ \A p \in Pixels :
              /\ out[block_idx].N_total_raster[p] =
                    FAdd(PoolSum(N_biomass, p, 0, d.timesteps),
                         PoolSum(N_soil, p, 0, d.timesteps))
              /\ out[block_idx].N_total_raster[p] =
                    RasterSum(out[block_idx].N_r_rasters, p, Transitions - 1)

\* a written block of three intervals, each with a net sequestration of its
\* own, none of them zero
C12_Witness ==
    /\ WrittenBlock
    /\ Transitions = 3
    /\ \E p \in Pixels :
          /\ \A k \in 0..2 : out[block_idx].N_r_rasters[k][p] # 0
          /\ out[block_idx].N_r_rasters[0][p] # out[block_idx].N_r_rasters[1][p]
          /\ out[block_idx].N_total_raster[p] # 0
          /\ N_biomass[0][p] # 0

RECURSIVE ValueSum(_, _)
\* sum over the timesteps 0..t of (N_biomass + N_soil) * price at pixel p
ValueSum(p, t) ==
    IF t < 0 THEN 0
    ELSE FAdd(ValueSum(p, t - 1),
              FMul(FAdd(N_biomass[t][p], N_soil[t][p]), d.price_t[t]))

\* C13: with the economic analysis on, the net-present-value raster holds
\* the sum over the timesteps of (N_biomass[t] + N_soil[t]) * price[t].
C13_NetPresentValue ==
    (WrittenBlock /\ d.do_economic_analysis) =>
        \A p \in Pixels :
            out[block_idx].NPV_raster[p] = ValueSum(p, d.timesteps - 1)

\* the codes a lookup table was given a value for
Keys(dct) == DOMAIN dct \ {FloatMin}
\* a block whose reclass calls have all returned
Reclassified == Pixels # {} /\ pc # "failed"

\* C14: reclass maps pointwise: wherever the code of a pixel is a key of the
\* table, the reclassified array holds the table's value for that code at
\* that pixel, whatever the other pixels of the block hold.
C14_ReclassPointwise ==
    Reclassified =>
        \A p \in Pixels :
            /\ PriorCode(p) \in Keys(d.lulc_to_Sb) =>
                  /\ S_biomass[0][p] = d.lulc_to_Sb[PriorCode(p)]
                  /\ S_soil[0][p] = d.lulc_to_Ss[PriorCode(p)]
                  /\ S_litter[0][p] = d.lulc_to_L[PriorCode(p)]
            /\ NextCode(0, p) \in Keys(d.lulc_to_Yb) =>
                  /\ Y_biomass[0][p] = d.lulc_to_Yb[NextCode(0, p)]
                  /\ Y_soil[0][p] = d.lulc_to_Ys[NextCode(0, p)]

\* C15: reclass never fails on a code the table does not hold: every call
\* returns, and wherever the code of a pixel is no key of the table (and is
\* not the nodata value) the reclassified array holds the sentinel, the
\* least float32.
C15_UnmappedToSentinel ==
    /\ pc # "failed"
    /\ Pixels # {} =>
          \A p \in Pixels :
              /\ (PriorCode(p) \notin Keys(d.lulc_to_Sb) /\ PriorCode(p) # C_nodata) =>
                    /\ S_biomass[0][p] = FloatMin
                    /\ S_soil[0][p] = FloatMin
              /\ (NextCode(0, p) \notin Keys(d.lulc_to_Yb) /\ NextCode(0, p) # C_nodata) =>
                    Y_biomass[0][p] = FloatMin

\* C16: whatever the nodata value of the input raster, a pixel whose code is
\* that value is not-a-number in the arrays reclass and reclass_transition
\* return.
C16_NodataToNaN ==
    Reclassified =>
        \A p \in Pixels :
            /\ PriorCode(p) = C_nodata =>
                  /\ IsNaN(S_biomass[0][p])
                  /\ IsNaN(S_soil[0][p])
                  /\ IsNaN(D_biomass[0][p])
                  /\ IsNaN(D_soil[0][p])
            /\ NextCode(0, p) = C_nodata => IsNaN(Y_biomass[0][p])

\* the pair of codes of pixel p over the first transition
Pair(p) == <<PriorCode(p), NextCode(0, p)>>

\* C17: reclass_transition is keyed by the ordered pair of codes: a pixel
\* whose pair has a row holds that row's fraction in D_biomass and D_soil,
\* and a pixel whose pair has none is told apart there from a fraction of 0.
C17_TransitionPairs ==
    Reclassified =>
        \A p \in Pixels :
            PriorCode(p) # C_nodata =>
                /\ Pair(p) \in DOMAIN d.lulc_trans_to_Db =>
                      /\ D_biomass[0][p] = d.lulc_trans_to_Db[Pair(p)]
                      /\ D_soil[0][p] = d.lulc_trans_to_Ds[Pair(p)]
                /\ Pair(p) \notin DOMAIN d.lulc_trans_to_Db =>
                      /\ D_biomass[0][p] # 0
                      /\ D_soil[0][p] # 0

\* every value written to the rasters of block b at pixel p
WrittenValues(b, p) ==
    {out[b].T_s_rasters[k][p] : k \in DOMAIN out[b].T_s_rasters}
    \cup {out[b].A_r_rasters[k][p] : k \in DOMAIN out[b].A_r_rasters}
    \cup {out[b].E_r_rasters[k][p] : k \in DOMAIN out[b].E_r_rasters}
    \cup {out[b].N_r_rasters[k][p] : k \in DOMAIN out[b].N_r_rasters}
    \cup {out[b].N_total_raster[p]}
    \cup (IF d.do_economic_analysis THEN {out[b].NPV_raster[p]} ELSE {})

\* C18: no not-a-number is ever written to an output raster, and a pixel
\* without data in the baseline raster carries the float nodata sentinel in
\* what is written.
C18_NoNaNWritten ==
    \A b \in DOMAIN out : \A p \in DOMAIN C_prior_raster[b] :
        /\ \A x \in WrittenValues(b, p) : ~IsNaN(x)
        /\ C_prior_raster[b][p] = C_nodata =>
              \A k \in DOMAIN out[b].T_s_rasters :
                  out[b].T_s_rasters[k][p] = NODATA_FLOAT

\* a lookup table as io.get_inputs built it, before any reclass call
Pristine(dct) == [key \in Keys(dct) |-> dct[key]]
\* the pixels execute reads for block b: baseline and transition rasters
BlockInputs(b) ==
    <<C_prior_raster[b], [k \in DOMAIN C_r_rasters |-> C_r_rasters[k][b]]>>

\* C19: blocks are independent: two blocks of the same pixels are written
\* the same rasters wherever they lie in the order of the blocks, and what
\* the reclass calls of the block about to start return does not depend on
\* what the calls of earlier blocks have left in the lookup tables.
C19_BlocksIndependent ==
    /\ \A b1 \in DOMAIN out : \A b2 \in DOMAIN out :
          BlockInputs(b1) = BlockInputs(b2) => out[b1] = out[b2]
    /\ (pc = "block" /\ block_idx < NumBlocks) =>
          LET calls == ReclassCalls(block_idx + 1)
          IN  \A c \in DOMAIN calls :
                  LET now  == reclass(calls[c].arr, d[calls[c].tab], C_nodata)
                      anew == reclass(calls[c].arr, Pristine(d[calls[c].tab]), C_nodata)
                  IN  now.out = anew.out /\ now.raised = anew.raised

\* two blocks of the same pixels, one of a code the tables do not hold, both
\* written, the second after the first left its mark in the lookup tables
C19_Witness ==
    /\ pc = "done"
    /\ DOMAIN out = {1, 2}
    /\ BlockInputs(1) = BlockInputs(2)
    /\ \E p \in Pixels : C_prior_raster[1][p] \notin Keys(d.lulc_to_Sb)
    /\ \E p \in Pixels : C_prior_raster[1][p] \in Keys(d.lulc_to_Sb)
    /\ FloatMin \in DOMAIN d.lulc_to_Sb
    /\ FloatMin \in DOMAIN d.lulc_to_L

\* C20: timestep_to_transition_idx never decreases: for timesteps
\* t1 <= t2 of the run it returns indices r1 <= r2.
C20_ResolverMonotone ==
    \A t1 \in 0..(d.timesteps - 1) : \A t2 \in t1..(d.timesteps - 1) :
        timestep_to_transition_idx(Years, Transitions, t1)
            <= timestep_to_transition_idx(Years, Transitions, t2)

\* the transient loop has resolved a timestep of the third transition after
\* timesteps of the first and of the second
C20_Witness ==
    /\ pc = "transient"
    /\ Transitions = 3
    /\ i = d.timesteps
    /\ transition_idx = 2
    /\ timestep_to_transition_idx(Years, Transitions, 0) = 0
    /\ \E t \in 1..(i - 2) : timestep_to_transition_idx(Years, Transitions, t) = 1

\* C21: with timesteps = last snapshot year - first snapshot year, the
\* resolver returns transitions-1 at the last timestep, and every transition
\* 0..transitions-1 is the resolved one at some timestep of the run.
C21_LastTransitionReached ==
    /\ d.timesteps = Years[Transitions] - Years[0]
    /\ timestep_to_transition_idx(Years, Transitions, d.timesteps - 1) = Transitions - 1
    /\ \A k \in 0..(Transitions - 1) :
          \E t \in 0..(d.timesteps - 1) :
              timestep_to_transition_idx(Years, Transitions, t) = k

\* the transient loop has run its last timestep, the only one of the third
\* transition
C21_Witness ==
    /\ pc = "transient"
    /\ i = d.timesteps
    /\ Transitions = 3
    /\ transition_idx = 2
    /\ StartOf(3) - StartOf(2) = 1

\* C22: at a timestep at or beyond the end of the last transition the
\* resolver returns no value: neither a transition index nor None.
C22_FailsBeyondEnd ==
    \A t \in d.timesteps..(d.timesteps + 2) :
        timestep_to_transition_idx(Years, Transitions, t)
            \notin (0..(Transitions - 1)) \cup {None}

\* C23: reclassification round trip: an array over the codes of a complete
\* mapping with pairwise distinct values, reclassified through the mapping
\* and then through its inverse, is the array again, element for element;
\* neither call fails.
C23_RoundTrip ==
    /\ probe.pc # "failed"
    /\ probe.pc \in {"backward", "done"} =>
          \A p \in DOMAIN probe.a : probe.b[p] = probe.m[probe.a[p]]
    /\ probe.pc = "done" =>
          /\ DOMAIN probe.back = DOMAIN probe.a
          /\ \A p \in DOMAIN probe.a : probe.back[p] = probe.a[p]

\* a round trip done on an array that holds a code twice and another once,
\* through a mapping that does not keep the order of the codes
C23_Witness ==
    /\ probe.pc = "done"
    /\ Len(probe.a) = 3
    /\ probe.a[1] = probe.a[3] /\ probe.a[1] # probe.a[2]
    /\ probe.a[1] > probe.a[2]
    /\ probe.m[probe.a[1]] < probe.m[probe.a[2]]
    /\ probe.back = probe.a

\* some two consecutive snapshots of the preprocessor's input are misaligned
Misaligned ==
    \E k \in 1..(Len(pre.lulc_snapshot_list) - 1) :
        pre.lulc_snapshot_list[k].grid # pre.lulc_snapshot_list[k + 1].grid
\* some raster value of the preprocessor's input is not in the lookup table
UnknownValue ==
    \E k \in DOMAIN pre.lulc_snapshot_list : \E p \in 1..2 :
        pre.lulc_snapshot_list[k].band[p] \notin DOMAIN pre.lulc_lookup_dict

\* C24: preprocessor fail-fast: in execute, on misaligned snapshots or a
\* raster value the lookup table does not hold, the run ends in input
\* validation with MisalignedRasters or NotAllClassesInLookupTable; no
\* transition is classified and no transition table written.
C24_FailFast ==
    (pre # << >> /\ pre.entry = "execute" /\ (Misaligned \/ UnknownValue)) =>
        /\ pre.pc \in {"_get_inputs", "failed"}
        /\ pre.pc = "failed" =>
              pre.error \in {"MisalignedRasters", "NotAllClassesInLookupTable"}
        /\ pre.transition_matrix_dict = << >>
        /\ pre.transition_csv = << >>

\* the pair (from, to) is met at a pixel in two consecutive snapshots
Observed(from, to) ==
    \E k \in 1..(Len(pre.lulc_snapshot_list) - 1) : \E p \in 1..2 :
        /\ pre.lulc_snapshot_list[k].band[p] = from
        /\ pre.lulc_snapshot_list[k + 1].band[p] = to
Habitat(c) == pre.lulc_lookup_dict[c]

\* C26: after preprocessing the transition matrix has a cell for every
\* ordered pair of codes of the lookup table; the cell of an observed pair
\* is 'disturbance' iff from is a habitat and to is not, 'unchanged' iff
\* neither is, 'accumulation' iff to is a habitat; the cell of a pair never
\* observed is blank.
C26_TransitionMatrix ==
    (pre # << >> /\ pre.transition_matrix_dict # << >>) =>
        LET m     == pre.transition_matrix_dict
            codes == DOMAIN pre.lulc_lookup_dict
        IN  /\ DOMAIN m = codes \X codes
            /\ \A from \in codes : \A to \in codes :
                  IF Observed(from, to)
                  THEN /\ m[<<from, to>>] \in {"disturbance", "unchanged", "accumulation"}
                       /\ m[<<from, to>>] = "disturbance" <=> (Habitat(from) /\ ~Habitat(to))
                       /\ m[<<from, to>>] = "unchanged" <=> (~Habitat(from) /\ ~Habitat(to))
                       /\ m[<<from, to>>] = "accumulation" <=> Habitat(to)
                  ELSE m[<<from, to>>] = ""

\* a matrix with a cell of each of the three kinds, a habitat gained out of
\* no habitat among them, and a blank cell
C26_Witness ==
    /\ pre.pc = "_create_transition_table"
    /\ \E c1, c2 \in 1..3 :
          /\ Observed(c1, c2) /\ ~Habitat(c1) /\ Habitat(c2)
          /\ pre.transition_matrix_dict[<<c1, c2>>] = "accumulation"
    /\ \E pr \in DOMAIN pre.transition_matrix_dict :
          pre.transition_matrix_dict[pr] = "disturbance"
    /\ \E pr \in DOMAIN pre.transition_matrix_dict :
          pre.transition_matrix_dict[pr] = "unchanged"
    /\ \E pr \in DOMAIN pre.transition_matrix_dict :
          pre.transition_matrix_dict[pr] = ""

\* C25: wave_energy.validate raises KeyError only when one of the six
\* required keys is absent from args; when all are present it returns its
\* warnings, and 'Parameter is required but has no value' is among them only
\* when a required key has an empty value.
C25_ValidateRequiredKeys ==
    (wave # << >> /\ wave.op = "validate" /\ wave.pc # "call") =>
        /\ wave.raised = "KeyError" =>
              \E k \in RequiredKeys : wave.args[k] = "absent"
        /\ (\A k \in RequiredKeys : wave.args[k] # "absent") =>
              /\ wave.pc = "returned"
              /\ "Parameter is required but has no value" \in wave.warnings
                    => \E k \in RequiredKeys : wave.args[k] = "empty"

\* the discounted sum of each year's own revenue less its own cost
OwnYearSum ==
    LET RECURSIVE sum(_)
        sum(t) == IF t = _LIFE_SPAN THEN 0
                  ELSE RhoPow(wave.drate, t)
                         * (wave.annual_revenue[t + 1] - wave.annual_cost[t + 1])
                       + sum(t + 1)
    IN  sum(0)

\* C30: the net present value of a wave farm is the sum over t = 0..24 of
\* rho^t * (annual_revenue[t] - annual_cost[t]): each year's own revenue and
\* cost, the initial cost charged once, undiscounted, in year 0.
C30_NetPresentValue ==
    (wave # << >> /\ wave.op = "npv" /\ ~wave.edited) =>
        /\ wave.pc = "pdb" => wave.npv_result = OwnYearSum
        /\ wave.pc = "written" => wave.NPV_25Y = OwnYearSum

\* C29: in the Fisheries form, after every change of the recruitment
\* function, spawn units, alpha and beta are interactive exactly when the
\* function is Beverton-Holt or Ricker, and the total recruits per time step
\* exactly when it is Fixed.
C29_RecruitmentParameters ==
    (form # << >> /\ form.changed) =>
        /\ \A p \in {"spawn_units", "alpha", "beta"} :
              form.interactive[p] <=>
                  form.recruitment_type \in {"Beverton-Holt", "Ricker"}
        /\ form.interactive["total_recur_recruits"] <=>
              form.recruitment_type = "Fixed"

\* C27: stock non-negativity: with non-negative baseline stocks and yearly
\* accumulation and disturbance fractions within [0, 1], S_biomass[t] >= 0
\* and S_soil[t] >= 0 for every t in 0..timesteps (the carbon emitted never
\* exceeds the carbon held). Pixels of codes the tables do not hold, whose
\* stock is the sentinel or not a number, are left aside.
C27_StockNonNegative ==
    \A p \in Pixels : \A t \in DOMAIN S_biomass :
        /\ IsOrdinary(S_biomass[t][p]) => S_biomass[t][p] >= 0
        /\ IsOrdinary(S_soil[t][p]) => S_soil[t][p] >= 0

\* the step is an iteration of the transient loop
TimestepTaken == pc = "transient" /\ i' # i
\* the step allocates a block's arrays
BlockBegun == pc = "block" /\ block_idx' # block_idx

\* C28: within a block the timesteps are processed in increasing order, one
\* by one; R[0] is written before the first timestep and R[k], k > 0, at the
\* first timestep of transition k and nowhere else, before the emission of
\* that timestep is computed; a transition that has not started has R[k] = 0.
C28_FrozenOnce ==
    [][/\ BlockBegun =>
             /\ i' = 0
             /\ \A k \in 1..(d.transitions - 1) :
                   /\ R_biomass'[k] = Zeros(Len(R_biomass'[0]))
                   /\ R_soil'[k] = Zeros(Len(R_soil'[0]))
       /\ TimestepTaken =>
             /\ i' = i + 1
             /\ \A k \in 0..(d.transitions - 1) :
                   /\ (R_biomass'[k] # R_biomass[k] \/ R_soil'[k] # R_soil[k])
                         => (k > 0 /\ i = StartOf(k))
                   /\ StartOf(k) > i =>
                         /\ R_biomass'[k] = Zeros(Len(R_biomass[0]))
                         /\ R_soil'[k] = Zeros(Len(R_soil[0]))
             /\ E_biomass'[i] = Emissions(R_biomass', i, Len(R_biomass[0]))
             /\ E_soil'[i] = Emissions(R_soil', i, Len(R_soil[0]))
       /\ (~BlockBegun /\ ~TimestepTaken) =>
             (R_biomass' = R_biomass /\ R_soil' = R_soil)
      ]_vars

\* the second of three transitions has frozen a nonzero disturbed stock, a
\* later timestep of that transition has passed and the third has not started
C28_Witness ==
    \E p \in Pixels :
        /\ d.transitions = 3
        /\ pc = "transient"
        /\ i > StartOf(1) + 1
        /\ i <= StartOf(2)
        /\ R_biomass[1][p] # 0
        /\ S_biomass[i][p] # S_biomass[StartOf(1)][p]
        /\ R_biomass[2][p] = 0

====
